---- MODULE Spec2Model ----
(***************************************************************************)
(* Model of run_parallel_analysis (src/streamlit_app_parallel.py): the     *)
(* two concurrent extraction calls, the matcher, the comparison tasks run  *)
(* by the ThreadPoolExecutor, the as_completed collection loop and the     *)
(* local fallback _manual_field_comparison.                                *)
(***************************************************************************)
EXTENDS Integers, Sequences, FiniteSets, TLC

(***************************************************************************)
(* Bounds of the model.                                                    *)
(***************************************************************************)
\* most records the two extraction calls of one run return together
MaxRecords == 3

(***************************************************************************)
(* Program constants.                                                      *)
(***************************************************************************)
\* st.slider("Max Parallel Workers", min_value=2, max_value=10, ...)
MinWorkers == 2
MaxWorkers == 10

(***************************************************************************)
(* JSON values.  A value carries its JSON type and its text, so that the   *)
(* raw comparison (value_a != value_b) and the coercion str(value) are two *)
(* different things:  10 and "10" differ, str(10) and str("10") do not.    *)
(***************************************************************************)
JStr(x) == [t |-> "str", s |-> x]
JNum(x) == [t |-> "num", s |-> x]
\* Python None; str(None) = "None"
None == [t |-> "null", s |-> "None"]
\* str(value)
Str(v) == v.s

\* dict.get(key, default)
Get(d, key, default) == IF key \in DOMAIN d THEN d[key] ELSE default

\* truth value of a dict-or-None, as in "if system_b:" / "and system_a"
Truthy(d) == d # None /\ DOMAIN d # {}

\* sys.get("System Name", "")
SystemName(sys) == Get(sys, "System Name", JStr(""))

\* field_order of _manual_field_comparison
field_order ==
    << "Amount", "Service", "Database", "Tier-Name", "Tier Type", "RAM",
       "No. of add HANA nodes", "No. of Standby nodes", "Storage Information",
       "OS", "SLA", "DR", "Add HW for DR", "Pacemaker Included", "Phase",
       "Server" >>

(***************************************************************************)
(* Inputs: what the two external services may answer.                      *)
(***************************************************************************)
Rec(name, amount) == ("System Name" :> JStr(name)) @@ ("Amount" :> JStr(amount))

\* the records an extraction answer is drawn from, each as the schema of the
\* extraction request asks (a "System Name" and string fields): two names,
\* and one name with two different configurations
Records == { Rec("sys1", "10"), Rec("sys1", "20"), Rec("sys2", "10") }

RECURSIVE SeqsUpTo(_, _)
SeqsUpTo(S, n) ==
    IF n = 0 THEN { << >> }
    ELSE LET shorter == SeqsUpTo(S, n - 1)
         IN  shorter \cup { Append(q, x) : q \in { r \in shorter : Len(r) = n - 1 }, x \in S }

\* result.get("systems", []) of a well-formed extraction answer
RecordSets == SeqsUpTo(Records, MaxRecords)

\* the ways extract_systems_from_contract raises
ExtractionErrors == { "empty response", "JSON parsing error" }

\* the ways compare_system_pair raises; the try block of
\* process_comparison_task catches every Exception alike
ComparisonErrors == { "empty response", "JSON parsing error" }

\* the JSON objects compare_system_pair may return
PayloadKinds == { "echo", "other" }

(***************************************************************************)
(* Pure functions of the program.                                          *)
(***************************************************************************)
\* { sys.get("System Name", ""): sys for sys in systems }  looked up with
\* .get(name): the last record of that name, or None
RECURSIVE MapGet(_, _)
MapGet(systems, name) ==
    IF systems = << >> THEN None
    ELSE LET last == systems[Len(systems)]
         IN  IF SystemName(last) = name THEN last
             ELSE MapGet(SubSeq(systems, 1, Len(systems) - 1), name)

\* the keys of that map
MapKeys(systems) == { SystemName(systems[i]) : i \in 1..Len(systems) }

Task(status, a, b) == [status |-> status, system_a |-> a, system_b |-> b]

\* the task appended for one record of systems_config_a
TaskOfA(system_a, systems_b) ==
    LET system_b == MapGet(systems_b, SystemName(system_a))
    IN  IF Truthy(system_b)
        THEN Task("matched", system_a, system_b)
        ELSE Task("missing_in_b", system_a, None)

\* the first loop: one task per record of systems_config_a, in list order
TasksForA(systems_a, systems_b) ==
    [i \in 1..Len(systems_a) |-> TaskOfA(systems_a[i], systems_b)]

\* TasksForB looking the name up in the map of the wrong side
TasksForBWrongMap(systems_a, systems_b) ==
    LET new == SelectSeq(systems_b, LAMBDA sys : SystemName(sys) \notin MapKeys(systems_b))
    IN  [i \in 1..Len(new) |-> Task("new_in_b", None, new[i])]

\* the second loop: one task per record of systems_config_b whose name is
\* no key of systems_a_map, in list order
RECURSIVE TasksForB(_, _)
TasksForB(systems_a, systems_b) ==
    IF systems_b = << >> THEN << >>
    ELSE LET system_b == Head(systems_b)
             rest == TasksForB(systems_a, Tail(systems_b))
         IN  IF SystemName(system_b) \notin MapKeys(systems_a)
             THEN << Task("new_in_b", None, system_b) >> \o rest
             ELSE rest

\* comparison_tasks as built by run_parallel_analysis
BuildTasks(systems_a, systems_b) ==
    TasksForA(systems_a, systems_b) \o TasksForB(systems_a, systems_b)

\* one entry of the list _manual_field_comparison returns
FieldDifference(field, value_a, value_b) ==
    [ field_name |-> field,
      value_a |-> Str(value_a),
      value_b |-> Str(value_b),
      analysis |-> << "changed", field, Str(value_a), Str(value_b) >> ]

\* FieldLoop that reads a missing attribute as None, not as "N/A"
RECURSIVE FieldLoopNoDefault(_, _, _, _)
FieldLoopNoDefault(system_a, system_b, fields, n) ==
    IF n = 0 THEN << >>
    ELSE LET field == fields[n]
             value_a == Get(system_a, field, None)
             value_b == Get(system_b, field, None)
             differences == FieldLoopNoDefault(system_a, system_b, fields, n - 1)
         IN  IF value_a # value_b
             THEN Append(differences, FieldDifference(field, value_a, value_b))
             ELSE differences

\* the loop of _manual_field_comparison over fields[1..n]
RECURSIVE FieldLoop(_, _, _, _)
FieldLoop(system_a, system_b, fields, n) ==
    IF n = 0 THEN << >>
    ELSE LET field == fields[n]
             value_a == Get(system_a, field, JStr("N/A"))
             value_b == Get(system_b, field, JStr("N/A"))
             differences == FieldLoop(system_a, system_b, fields, n - 1)
         IN  IF value_a # value_b
             THEN Append(differences, FieldDifference(field, value_a, value_b))
             ELSE differences

\* _manual_field_comparison(system_a, system_b)
ManualFieldComparison(system_a, system_b) ==
    FieldLoop(system_a, system_b, field_order, Len(field_order))

\* what json.loads(text) gives compare_system_pair when the answer is a JSON
\* object: "echo" answers for the pair it was asked about, "other" names
\* another system, another status and a null side
Payload(kind, system_a, system_b) ==
    IF kind = "echo"
    THEN [ system_name |-> SystemName(system_a),
           status |-> "matched",
           config_a |-> system_a,
           config_b |-> system_b,
           field_differences |-> ManualFieldComparison(system_a, system_b),
           system_analysis |-> << "service analysis" >> ]
    ELSE [ system_name |-> JStr("sysX"),
           status |-> "missing_in_b",
           config_a |-> system_a,
           config_b |-> None,
           field_differences |-> << >>,
           system_analysis |-> << "service analysis" >> ]

\* result["status"] = "matched"
SetStatusMatched(result) == ("status" :> "matched") @@ result

\* FallbackResult that skips the field comparison
FallbackResultNoDiff(system_a, system_b, e) ==
    [ system_name |-> SystemName(system_a),
      status |-> "matched",
      config_a |-> system_a,
      config_b |-> system_b,
      field_differences |-> << >>,
      system_analysis |-> << "Comparison completed with fallback method. Error: ", e >> ]

\* the except branch of process_comparison_task
FallbackResult(system_a, system_b, e) ==
    [ system_name |-> SystemName(system_a),
      status |-> "matched",
      config_a |-> system_a,
      config_b |-> system_b,
      field_differences |-> ManualFieldComparison(system_a, system_b),
      system_analysis |-> << "Comparison completed with fallback method. Error: ", e >> ]

\* MissingInB with the two sides swapped
MissingInBSwapped(system_a) ==
    [ system_name |-> SystemName(system_a),
      status |-> "missing_in_b",
      config_a |-> None,
      config_b |-> system_a,
      field_differences |-> << >>,
      system_analysis |-> << "exists in Version A but is missing in Version B", SystemName(system_a) >> ]

MissingInB(system_a) ==
    [ system_name |-> SystemName(system_a),
      status |-> "missing_in_b",
      config_a |-> system_a,
      config_b |-> None,
      field_differences |-> << >>,
      system_analysis |-> << "exists in Version A but is missing in Version B", SystemName(system_a) >> ]

\* NewInB that writes the status into the record itself
NewInBStamped(system_b) ==
    [ system_name |-> SystemName(system_b),
      status |-> "new_in_b",
      config_a |-> None,
      config_b |-> ("status" :> JStr("new_in_b")) @@ system_b,
      field_differences |-> << >>,
      system_analysis |-> << "is new in Version B (not present in Version A)", SystemName(system_b) >> ]

NewInB(system_b) ==
    [ system_name |-> SystemName(system_b),
      status |-> "new_in_b",
      config_a |-> None,
      config_b |-> system_b,
      field_differences |-> << >>,
      system_analysis |-> << "is new in Version B (not present in Version A)", SystemName(system_b) >> ]

\* an answer of the comparison service: a JSON object, or an error raised
\* inside the try block
Returned(kind) == [ok |-> TRUE, what |-> kind]
Raised(e) == [ok |-> FALSE, what |-> e]
NoCall == [ok |-> FALSE, what |-> "not called"]
Answers == { Returned(k) : k \in PayloadKinds } \cup { Raised(e) : e \in ComparisonErrors }

\* process_comparison_task whose last branch tests the wrong record
ProcessComparisonTaskWrongGuard(task, answer) ==
    IF task.status = "matched" /\ Truthy(task.system_a) /\ Truthy(task.system_b)
    THEN IF answer.ok
         THEN SetStatusMatched(Payload(answer.what, task.system_a, task.system_b))
         ELSE FallbackResult(task.system_a, task.system_b, answer.what)
    ELSE IF task.status = "missing_in_b" /\ Truthy(task.system_a)
    THEN MissingInB(task.system_a)
    ELSE IF task.status = "new_in_b" /\ Truthy(task.system_a)
    THEN NewInB(task.system_b)
    ELSE None

\* process_comparison_task(task), given the answer of compare_system_pair
\* (read only in the matched branch)
ProcessComparisonTask(task, answer) ==
    IF task.status = "matched" /\ Truthy(task.system_a) /\ Truthy(task.system_b)
    THEN IF answer.ok
         THEN SetStatusMatched(Payload(answer.what, task.system_a, task.system_b))
         ELSE FallbackResult(task.system_a, task.system_b, answer.what)
    ELSE IF task.status = "missing_in_b" /\ Truthy(task.system_a)
    THEN MissingInB(task.system_a)
    ELSE IF task.status = "new_in_b" /\ Truthy(task.system_b)
    THEN NewInB(task.system_b)
    ELSE None

\* CallsService of a process_comparison_task that asks the service about
\* every task
CallsServiceAlways(task) ==
    Truthy(task.system_a) \/ Truthy(task.system_b)

\* whether the task takes the branch that calls compare_system_pair
CallsService(task) ==
    task.status = "matched" /\ Truthy(task.system_a) /\ Truthy(task.system_b)

(***************************************************************************)
(* State.                                                                  *)
(***************************************************************************)
VARIABLES
    pc,                 \* where the thread running run_parallel_analysis is
    max_workers,        \* the max_workers argument
    extraction,         \* future_a and future_b of Phase 1
    systems_config_a,   \* future_a.result(), empty before
    systems_config_b,   \* future_b.result(), empty before
    error,              \* the exception run_parallel_analysis is raising, None if none
    comparison_tasks,   \* the task list of the matcher
    futures,            \* one future per submitted comparison task
    systems_comparison, \* the result list, in collection order
    warnings,           \* the st.warning messages, in order
    report              \* the returned dict, None before the return

vars == << pc, max_workers, extraction, systems_config_a, systems_config_b, error,
           comparison_tasks, futures, systems_comparison, warnings, report >>

Sides == { "Version A", "Version B" }

\* a Phase-1 future
ExtractRunning == [st |-> "running", value |-> << >>, exc |-> "none"]
\* a Phase-2 future
Queued == [st |-> "queued", answer |-> NoCall, raised |-> FALSE, result |-> None,
           yielded |-> FALSE]

TaskIds == 1..Len(futures)
RunningTasks == { i \in TaskIds : futures[i].st = "running" }
QueuedTasks == { i \in TaskIds : futures[i].st = "queued" }

\* the least and the greatest value the slider of main() passes
SliderValues == { MinWorkers, MaxWorkers }
\* values a direct caller of run_parallel_analysis may pass
AnyWorkers == SliderValues \cup { 0, 1, MaxWorkers + 1 }

\* both extraction calls submitted to the 2-worker pool, main thread blocked
\* in future_a.result()
InitWith(workers) ==
    /\ pc = "future_a.result"
    /\ max_workers \in workers
    /\ extraction = [side \in Sides |-> ExtractRunning]
    /\ systems_config_a = << >>
    /\ systems_config_b = << >>
    /\ error = None
    /\ comparison_tasks = << >>
    /\ futures = << >>
    /\ systems_comparison = << >>
    /\ warnings = << >>
    /\ report = None

Init == InitWith(SliderValues)
InitDirect == InitWith(AnyWorkers)

(***************************************************************************)
(* Phase 1.                                                                *)
(***************************************************************************)
\* extract_systems_from_contract returns result.get("systems", [])
ExtractReturns(side, systems) ==
    /\ extraction[side].st = "running"
    /\ \A other \in Sides \ {side} :
          Len(systems) + Len(extraction[other].value) <= MaxRecords
    /\ extraction' = [extraction EXCEPT ![side] = [st |-> "returned", value |-> systems, exc |-> "none"]]
    /\ UNCHANGED << pc, max_workers, systems_config_a, systems_config_b, error,
                    comparison_tasks, futures, systems_comparison, warnings, report >>

\* extract_systems_from_contract raises RuntimeError
ExtractRaises(side, e) ==
    /\ extraction[side].st = "running"
    /\ extraction' = [extraction EXCEPT ![side] = [st |-> "raised", value |-> << >>, exc |-> e]]
    /\ UNCHANGED << pc, max_workers, systems_config_a, systems_config_b, error,
                    comparison_tasks, futures, systems_comparison, warnings, report >>

\* ResultA that reports the error of B when B has failed before A is read
ResultAFirstFailure ==
    /\ pc = "future_a.result"
    /\ extraction["Version A"].st # "running"
    /\ IF extraction["Version A"].st = "returned"
       THEN /\ systems_config_a' = extraction["Version A"].value
            /\ pc' = "future_b.result"
            /\ UNCHANGED error
       ELSE /\ error' = IF extraction["Version B"].st = "raised"
                        THEN [raised_by |-> "Version B", what |-> extraction["Version B"].exc]
                        ELSE [raised_by |-> "Version A", what |-> extraction["Version A"].exc]
            /\ pc' = "exit phase 1"
            /\ UNCHANGED systems_config_a
    /\ UNCHANGED << max_workers, extraction, systems_config_b, comparison_tasks, futures,
                    systems_comparison, warnings, report >>

\* systems_config_a = future_a.result()
ResultA ==
    /\ pc = "future_a.result"
    /\ extraction["Version A"].st # "running"
    /\ IF extraction["Version A"].st = "returned"
       THEN /\ systems_config_a' = extraction["Version A"].value
            /\ pc' = "future_b.result"
            /\ UNCHANGED error
       ELSE /\ error' = [raised_by |-> "Version A", what |-> extraction["Version A"].exc]
            /\ pc' = "exit phase 1"
            /\ UNCHANGED systems_config_a
    /\ UNCHANGED << max_workers, extraction, systems_config_b, comparison_tasks, futures,
                    systems_comparison, warnings, report >>

\* ResultB that reads what future_b holds without waiting for it, and goes
\* on to Phase 2 past the join of the Phase-1 pool
ResultBNoWait ==
    /\ pc = "future_b.result"
    /\ extraction["Version B"].st # "raised"
    /\ systems_config_b' = extraction["Version B"].value
    /\ pc' = "match"
    /\ UNCHANGED << max_workers, extraction, systems_config_a, error, comparison_tasks,
                    futures, systems_comparison, warnings, report >>

\* ResultB that takes a failed extraction of B for an empty RecordSet
ResultBSwallows ==
    /\ pc = "future_b.result"
    /\ extraction["Version B"].st # "running"
    /\ systems_config_b' = extraction["Version B"].value
    /\ pc' = "exit phase 1"
    /\ UNCHANGED << max_workers, extraction, systems_config_a, error, comparison_tasks,
                    futures, systems_comparison, warnings, report >>

\* systems_config_b = future_b.result()
ResultB ==
    /\ pc = "future_b.result"
    /\ extraction["Version B"].st # "running"
    /\ IF extraction["Version B"].st = "returned"
       THEN /\ systems_config_b' = extraction["Version B"].value
            /\ UNCHANGED error
       ELSE /\ error' = [raised_by |-> "Version B", what |-> extraction["Version B"].exc]
            /\ UNCHANGED systems_config_b
    /\ pc' = "exit phase 1"
    /\ UNCHANGED << max_workers, extraction, systems_config_a, comparison_tasks, futures,
                    systems_comparison, warnings, report >>

\* ExitPhase1 of a pool shut down with wait=False
ExitPhase1NoJoin ==
    /\ pc = "exit phase 1"
    /\ pc' = IF error = None THEN "match" ELSE "raised"
    /\ UNCHANGED << max_workers, extraction, systems_config_a, systems_config_b, error,
                    comparison_tasks, futures, systems_comparison, warnings, report >>

\* the end of the first "with ThreadPoolExecutor" block: shutdown(wait=True)
\* joins both workers, then the pending exception, if any, leaves
\* run_parallel_analysis
ExitPhase1 ==
    /\ pc = "exit phase 1"
    /\ \A side \in Sides : extraction[side].st # "running"
    /\ pc' = IF error = None THEN "match" ELSE "raised"
    /\ UNCHANGED << max_workers, extraction, systems_config_a, systems_config_b, error,
                    comparison_tasks, futures, systems_comparison, warnings, report >>

(***************************************************************************)
(* Matching and Phase 2.                                                   *)
(***************************************************************************)
\* ThreadPoolExecutor(max_workers=n) raises ValueError for n <= 0
PoolRejects(n) == n <= 0

\* the matcher, then the second "with ThreadPoolExecutor(max_workers)" and
\* the submit of every task
MatchAndSubmit ==
    /\ pc = "match"
    /\ comparison_tasks' = BuildTasks(systems_config_a, systems_config_b)
    /\ IF PoolRejects(max_workers)
       THEN /\ error' = [raised_by |-> "ThreadPoolExecutor", what |-> "max_workers must be greater than 0"]
            /\ pc' = "raised"
            /\ UNCHANGED futures
       ELSE /\ futures' = [i \in 1..Len(comparison_tasks') |-> Queued]
            /\ pc' = "as_completed"
            /\ UNCHANGED error
    /\ UNCHANGED << max_workers, extraction, systems_config_a, systems_config_b,
                    systems_comparison, warnings, report >>

\* the size of the Phase-2 pool: ThreadPoolExecutor(max_workers=max_workers)
PoolSize == max_workers

\* WorkerFree of a pool whose threads end with their first work item
WorkerFreeNoReuse ==
    Cardinality({ i \in TaskIds : futures[i].st # "queued" }) < PoolSize

\* WorkerFree of a pool that starts a thread per work item
WorkerFreeUnbounded == TRUE

\* whether a worker thread of the pool may take the next work item
WorkerFree == Cardinality(RunningTasks) < PoolSize

\* a worker takes the oldest queued work item
\* StartTask of a pool that runs one task at a time
StartTaskOneWorker(i) ==
    /\ pc = "as_completed"
    /\ i \in QueuedTasks
    /\ \A j \in QueuedTasks : i <= j
    /\ RunningTasks = {}
    /\ futures' = [futures EXCEPT ![i].st = "running"]
    /\ UNCHANGED << pc, max_workers, extraction, systems_config_a, systems_config_b, error,
                    comparison_tasks, systems_comparison, warnings, report >>

StartTask(i) ==
    /\ pc = "as_completed"
    /\ i \in QueuedTasks
    /\ \A j \in QueuedTasks : i <= j
    /\ WorkerFree
    /\ futures' = [futures EXCEPT ![i].st = "running"]
    /\ UNCHANGED << pc, max_workers, extraction, systems_config_a, systems_config_b, error,
                    comparison_tasks, systems_comparison, warnings, report >>

\* the future of task i is set to the value process_comparison_task returns
FinishWith(i, answer) ==
    futures' = [futures EXCEPT ![i] =
                   [st |-> "done", answer |-> answer, raised |-> FALSE,
                    result |-> ProcessComparisonTask(comparison_tasks[i], answer),
                    yielded |-> FALSE]]

\* a matched task: compare_system_pair answers, or raises and the fallback runs
ServiceAnswers(i, answer) ==
    /\ i \in RunningTasks
    /\ CallsService(comparison_tasks[i])
    /\ FinishWith(i, answer)
    /\ UNCHANGED << pc, max_workers, extraction, systems_config_a, systems_config_b, error,
                    comparison_tasks, systems_comparison, warnings, report >>

\* a task that calls no service
LocalTask(i) ==
    /\ i \in RunningTasks
    /\ ~CallsService(comparison_tasks[i])
    /\ FinishWith(i, NoCall)
    /\ UNCHANGED << pc, max_workers, extraction, systems_config_a, systems_config_b, error,
                    comparison_tasks, systems_comparison, warnings, report >>

\* an exception leaves process_comparison_task and is stored in the future.
\* Only the matched branch calls out of the function; its try block catches
\* what compare_system_pair raises, not what is raised past it.
TaskRaises(i) ==
    /\ i \in RunningTasks
    /\ CallsService(comparison_tasks[i])
    /\ futures' = [futures EXCEPT ![i] =
                      [st |-> "done", answer |-> NoCall, raised |-> TRUE, result |-> None,
                       yielded |-> FALSE]]
    /\ UNCHANGED << pc, max_workers, extraction, systems_config_a, systems_config_b, error,
                    comparison_tasks, systems_comparison, warnings, report >>

\* Collect without the try/except around future.result()
CollectNoTry(i) ==
    /\ pc = "as_completed"
    /\ i \in TaskIds
    /\ futures[i].st = "done"
    /\ ~futures[i].yielded
    /\ futures' = [futures EXCEPT ![i].yielded = TRUE]
    /\ IF futures[i].raised
       THEN /\ error' = [raised_by |-> "process_comparison_task", what |-> "task error"]
            /\ pc' = "raised"
            /\ UNCHANGED systems_comparison
       ELSE /\ systems_comparison' =
                  IF Truthy(futures[i].result)
                  THEN Append(systems_comparison, futures[i].result)
                  ELSE systems_comparison
            /\ UNCHANGED << pc, error >>
    /\ UNCHANGED << max_workers, extraction, systems_config_a, systems_config_b,
                    comparison_tasks, warnings, report >>

\* one turn of "for future in as_completed(futures)": any finished future
\* not yet yielded
Collect(i) ==
    /\ pc = "as_completed"
    /\ i \in TaskIds
    /\ futures[i].st = "done"
    /\ ~futures[i].yielded
    /\ futures' = [futures EXCEPT ![i].yielded = TRUE]
    /\ IF futures[i].raised
       THEN /\ warnings' = Append(warnings, << "Error processing system comparison", i >>)
            /\ UNCHANGED systems_comparison
       ELSE /\ systems_comparison' =
                  IF Truthy(futures[i].result)
                  THEN Append(systems_comparison, futures[i].result)
                  ELSE systems_comparison
            /\ UNCHANGED warnings
    /\ UNCHANGED << pc, max_workers, extraction, systems_config_a, systems_config_b, error,
                    comparison_tasks, report >>

\* Return that does not wait for the tasks still running
ReturnEarly ==
    /\ pc = "as_completed"
    /\ QueuedTasks = {}
    /\ \A i \in TaskIds : futures[i].st = "done" => futures[i].yielded
    /\ report' = [ systems_config_a |-> systems_config_a,
                   systems_config_b |-> systems_config_b,
                   systems_comparison |-> systems_comparison ]
    /\ pc' = "returned"
    /\ UNCHANGED << max_workers, extraction, systems_config_a, systems_config_b, error,
                    comparison_tasks, futures, systems_comparison, warnings >>

\* as_completed is exhausted, the pool is shut down, the dict is returned
Return ==
    /\ pc = "as_completed"
    /\ \A i \in TaskIds : futures[i].yielded
    /\ report' = [ systems_config_a |-> systems_config_a,
                   systems_config_b |-> systems_config_b,
                   systems_comparison |-> systems_comparison ]
    /\ pc' = "returned"
    /\ UNCHANGED << max_workers, extraction, systems_config_a, systems_config_b, error,
                    comparison_tasks, futures, systems_comparison, warnings >>

Next ==
    \/ \E side \in Sides, systems \in RecordSets : ExtractReturns(side, systems)
    \/ \E side \in Sides, e \in ExtractionErrors : ExtractRaises(side, e)
    \/ ResultA
    \/ ResultB
    \/ ExitPhase1
    \/ MatchAndSubmit
    \/ \E i \in TaskIds : StartTask(i)
    \/ \E i \in TaskIds, answer \in Answers : ServiceAnswers(i, answer)
    \/ \E i \in TaskIds : LocalTask(i)
    \/ \E i \in TaskIds : TaskRaises(i)
    \/ \E i \in TaskIds : Collect(i)
    \/ Return

Spec == Init /\ [][Next]_vars
SpecDirect == InitDirect /\ [][Next]_vars

(***************************************************************************)
(* Runs on the records json.loads may give the fallback: an attribute may  *)
(* be missing, be the string "N/A", or be a JSON number where the schema   *)
(* asks for a string.  "Amount" is the first field of field_order,         *)
(* "Server" the last.                                                      *)
(***************************************************************************)
\* no such attribute in the dict
Absent == [t |-> "absent", s |-> ""]
AmountValues == { Absent, JStr("N/A"), JStr("10"), JNum("10"), JStr("20") }
ServerValues == { Absent, JStr("N/A"), JStr("srv") }

Attribute(key, value) == IF value = Absent THEN << >> ELSE key :> value

RichRec(amount, server) ==
    ("System Name" :> JStr("sys1")) @@ Attribute("Amount", amount) @@ Attribute("Server", server)

RichRecords == { RichRec(amount, server) : amount \in AmountValues, server \in ServerValues }

\* both extraction calls have returned, A one record and B one record of
\* the same name or none; the main thread is still in future_a.result()
InitFallback ==
    /\ pc = "future_a.result"
    /\ max_workers = MinWorkers
    /\ \E a \in RichRecords, systems_b \in { << >> } \cup { << b >> : b \in RichRecords } :
          extraction = [side \in Sides |->
                           [st |-> "returned",
                            value |-> IF side = "Version A" THEN << a >> ELSE systems_b,
                            exc |-> "none"]]
    /\ systems_config_a = << >>
    /\ systems_config_b = << >>
    /\ error = None
    /\ comparison_tasks = << >>
    /\ futures = << >>
    /\ systems_comparison = << >>
    /\ warnings = << >>
    /\ report = None

\* the steps of the thread running run_parallel_analysis
MainThread ==
    \/ ResultA
    \/ ResultB
    \/ ExitPhase1
    \/ MatchAndSubmit
    \/ \E i \in TaskIds : Collect(i)
    \/ Return

\* the steps of the worker threads of the Phase-2 pool
PoolWorkers ==
    \/ \E i \in TaskIds : StartTask(i)
    \/ \E i \in TaskIds, answer \in Answers : ServiceAnswers(i, answer)
    \/ \E i \in TaskIds : LocalTask(i)
    \/ \E i \in TaskIds : TaskRaises(i)

\* the threads are scheduled and every call of the comparison service
\* returns or raises: while a step of the main thread or of a pool worker is
\* possible, one is taken
SpecFair == Spec /\ WF_vars(MainThread \/ PoolWorkers)

\* the runs from InitFallback: no extraction call is left to answer
SpecFallback == InitFallback /\ [][MainThread \/ PoolWorkers]_vars

(***************************************************************************)
(* Runs in which calls of the comparison service may never return.  Both   *)
(* extraction calls have returned up to MaxPerSide records each; the main  *)
(* thread and the free workers of the pool are scheduled, and nothing is   *)
(* assumed about a task that has started.                                  *)
(***************************************************************************)
MaxPerSide == 2

InitHung ==
    /\ pc = "future_a.result"
    /\ max_workers = MinWorkers
    /\ \E systems_a \in SeqsUpTo(Records, MaxPerSide), systems_b \in SeqsUpTo(Records, MaxPerSide) :
          extraction = [side \in Sides |->
                           [st |-> "returned",
                            value |-> IF side = "Version A" THEN systems_a ELSE systems_b,
                            exc |-> "none"]]
    /\ systems_config_a = << >>
    /\ systems_config_b = << >>
    /\ error = None
    /\ comparison_tasks = << >>
    /\ futures = << >>
    /\ systems_comparison = << >>
    /\ warnings = << >>
    /\ report = None

\* process_comparison_task of task j comes to its end
FinishTask(j) ==
    \/ \E answer \in Answers : ServiceAnswers(j, answer)
    \/ LocalTask(j)
    \/ TaskRaises(j)

SpecHung ==
    /\ InitHung
    /\ [][MainThread \/ PoolWorkers]_vars
    /\ WF_vars(MainThread)
    /\ WF_vars(\E i \in TaskIds : StartTask(i))

(***************************************************************************)
(* Properties.                                                             *)
(***************************************************************************)
Returned_ == pc = "returned"
KeysA == MapKeys(systems_config_a)
KeysB == MapKeys(systems_config_b)
\* the indices of the entries of the returned systems_comparison that satisfy P
EntriesWith(P(_)) ==
    { n \in 1..Len(report.systems_comparison) : P(report.systems_comparison[n]) }
NoTaskRaised == \A i \in TaskIds : ~futures[i].raised

\* C1: after a run in which both extractions succeed and no comparison task
\* raises, systems_comparison holds exactly one entry per distinct
\* "System Name" of the union of the two RecordSets, so as many entries as
\* there are distinct names, also when a name repeats within one RecordSet.
C1_OneEntryPerKey ==
    (Returned_ /\ NoTaskRaised) =>
        Len(report.systems_comparison) = Cardinality(KeysA \cup KeysB)

\* C2: for every name k of both RecordSets the returned systems_comparison
\* holds exactly one entry whose system_name is k and whose status is
\* "matched", whatever the comparison service answered or raised.
C2_MatchedEntryPerCommonKey ==
    (Returned_ /\ NoTaskRaised) =>
        \A k \in KeysA \cap KeysB :
            Cardinality(EntriesWith(LAMBDA e : e.system_name = k /\ e.status = "matched")) = 1

\* C3: for every record of RecordSet A whose name is in no record of B the
\* returned systems_comparison holds an entry of that name with status
\* "missing_in_b", config_a the A record and config_b null.
C3_OnlyInA ==
    Returned_ =>
        \A i \in 1..Len(systems_config_a) :
            SystemName(systems_config_a[i]) \notin KeysB =>
                EntriesWith(LAMBDA e : /\ e.system_name = SystemName(systems_config_a[i])
                                       /\ e.status = "missing_in_b"
                                       /\ e.config_a = systems_config_a[i]
                                       /\ e.config_b = None) # {}

\* a run has returned whose A side holds a record matched in B and a record
\* of a name B does not have
C3_Witness ==
    /\ Returned_
    /\ \E i, j \in 1..Len(systems_config_a) :
          /\ SystemName(systems_config_a[i]) \notin KeysB
          /\ SystemName(systems_config_a[j]) \in KeysB

\* C4: for every record of RecordSet B whose name is in no record of A the
\* returned systems_comparison holds an entry of that name with status
\* "new_in_b", config_b the B record and config_a null.
C4_OnlyInB ==
    Returned_ =>
        \A i \in 1..Len(systems_config_b) :
            SystemName(systems_config_b[i]) \notin KeysA =>
                EntriesWith(LAMBDA e : /\ e.system_name = SystemName(systems_config_b[i])
                                       /\ e.status = "new_in_b"
                                       /\ e.config_b = systems_config_b[i]
                                       /\ e.config_a = None) # {}

\* a run has returned whose B side holds a record matched in A and a record
\* of a name A does not have
C4_Witness ==
    /\ Returned_
    /\ \E i, j \in 1..Len(systems_config_b) :
          /\ SystemName(systems_config_b[i]) \notin KeysA
          /\ SystemName(systems_config_b[j]) \in KeysA

\* C5: when the comparison service call of a matched pair fails, the run
\* does not fail: the task yields the result with status "matched", the two
\* records as config_a and config_b, the field differences of
\* _manual_field_comparison and the diagnostic text that embeds the error,
\* and the result is collected.
C5_FallbackOnServiceFailure ==
    \A i \in TaskIds :
        (futures[i].st = "done" /\ futures[i].answer \in { Raised(e) : e \in ComparisonErrors }) =>
            LET task == comparison_tasks[i]
                fallback ==
                    [ system_name |-> SystemName(task.system_a),
                      status |-> "matched",
                      config_a |-> task.system_a,
                      config_b |-> task.system_b,
                      field_differences |-> ManualFieldComparison(task.system_a, task.system_b),
                      system_analysis |->
                          << "Comparison completed with fallback method. Error: ",
                             futures[i].answer.what >> ]
            IN  /\ ~futures[i].raised
                /\ futures[i].result = fallback
                /\ pc # "raised"
                /\ futures[i].yielded =>
                       \E n \in 1..Len(systems_comparison) : systems_comparison[n] = fallback

\* a run has returned in which a service call failed on a pair of records
\* that differ, and the fallback result is in the report
C5_Witness ==
    /\ Returned_
    /\ \E i \in TaskIds :
          /\ futures[i].answer \in { Raised(e) : e \in ComparisonErrors }
          /\ futures[i].result.field_differences # << >>
          /\ EntriesWith(LAMBDA e : e = futures[i].result) # {}

\* C6: if either extraction call fails, run_parallel_analysis fails with
\* that error, returns no report, and no comparison task is built or
\* submitted.
C6_ExtractionFailureAborts ==
    (\E side \in Sides : extraction[side].st = "raised") =>
        /\ comparison_tasks = << >>
        /\ futures = << >>
        /\ report = None
        /\ pc \in { "future_a.result", "future_b.result", "exit phase 1", "raised" }
        /\ pc = "raised" => (error # None /\ error.raised_by \in Sides)

\* the run has failed on the extraction of B after the extraction of A
\* succeeded with a record
C6_Witness ==
    /\ pc = "raised"
    /\ extraction["Version A"].st = "returned"
    /\ extraction["Version A"].value # << >>
    /\ extraction["Version B"].st = "raised"

\* C7: an exception raised while processing one Phase-2 task is caught for
\* that task only: it gives one warning and no entry, the result of every
\* other task is collected, and the run returns a report.
C7_TaskErrorContained ==
    /\ futures # << >> => pc # "raised"
    /\ \A i \in TaskIds :
          (futures[i].yielded /\ futures[i].raised) =>
              Cardinality({ n \in 1..Len(warnings) : warnings[n][2] = i }) = 1
    /\ Returned_ =>
          /\ Len(warnings) = Cardinality({ i \in TaskIds : futures[i].raised })
          /\ Len(report.systems_comparison) = Cardinality({ i \in TaskIds : ~futures[i].raised })
          /\ \A i \in TaskIds :
                ~futures[i].raised => EntriesWith(LAMBDA e : e = futures[i].result) # {}

\* a run has returned in which one task raised and another did not
C7_Witness ==
    /\ Returned_
    /\ \E i, j \in TaskIds : futures[i].raised /\ ~futures[j].raised
    /\ Len(report.systems_comparison) >= 1
    /\ Len(warnings) >= 1

\* C8: once both extractions have succeeded, and every call of the
\* comparison service returns or raises, run_parallel_analysis returns a
\* report, whatever the tasks and whichever of them fail.
C8_RunTerminates == (pc = "match") ~> (Returned_ /\ report # None)

\* a run has returned a report after one task raised and another used the
\* fallback
C8_Witness ==
    /\ Returned_ /\ report # None
    /\ \E i, j \in TaskIds : futures[i].raised /\ futures[j].answer \in { Raised(e) : e \in ComparisonErrors }

\* the comparison service answered the same on the same pair of records
DeterministicService ==
    \A i, j \in TaskIds :
        (CallsService(comparison_tasks[i]) /\ comparison_tasks[i] = comparison_tasks[j]) =>
            futures[i].answer = futures[j].answer

\* what that service answers on the pair of a task
ServiceAnswerFor(task) ==
    IF CallsService(task)
    THEN CHOOSE a \in Answers :
             \E i \in TaskIds : comparison_tasks[i] = task /\ futures[i].answer = a
    ELSE NoCall

\* the results of running the tasks of two RecordSets one after the other
SequentialResults(systems_a, systems_b) ==
    LET tasks == BuildTasks(systems_a, systems_b)
    IN  { ProcessComparisonTask(tasks[i], ServiceAnswerFor(tasks[i])) : i \in 1..Len(tasks) }

\* C9: for fixed extraction outputs and a deterministic comparison service
\* the set of entries of systems_comparison is the same for every
\* max_workers and every order in which the tasks complete: it is the set
\* of results of the tasks run one after the other.
C9_CompletionOrderIndependent ==
    (Returned_ /\ NoTaskRaised /\ DeterministicService) =>
        { report.systems_comparison[n] : n \in 1..Len(report.systems_comparison) }
            = SequentialResults(report.systems_config_a, report.systems_config_b)

\* a run has returned that collected the second task's result before the
\* first task's, on a pool of more than one worker
C9_Witness ==
    /\ Returned_ /\ NoTaskRaised /\ DeterministicService
    /\ PoolSize > 1
    /\ Len(report.systems_comparison) >= 2
    /\ report.systems_comparison[1] = futures[2].result
    /\ report.systems_comparison[1] # futures[1].result

\* C10: a max_workers outside [2, 10] is clamped, not rejected: the Phase-2
\* pool runs with between 2 and 10 workers and the run does not fail on the
\* value.
C10_WorkersClamped ==
    /\ pc \in { "as_completed", "returned" } => PoolSize \in MinWorkers..MaxWorkers
    /\ (pc = "raised" /\ error # None) => error.raised_by # "ThreadPoolExecutor"

\* C11: every entry of systems_comparison with status "matched" has both
\* config_a and config_b non-null, on the fallback path and on the path
\* that returns the answer of the comparison service.
C11_MatchedHasBothConfigs ==
    \A n \in 1..Len(systems_comparison) :
        systems_comparison[n].status = "matched" =>
            /\ Get(systems_comparison[n], "config_a", None) # None
            /\ Get(systems_comparison[n], "config_b", None) # None

\* C12: no comparison task exists, runs or has run while an extraction call
\* is still in progress: Phase 2 begins after both Phase-1 calls completed.
C12_PhasesSequenced ==
    (\E side \in Sides : extraction[side].st = "running") =>
        /\ comparison_tasks = << >>
        /\ futures = << >>
        /\ pc \in { "future_a.result", "future_b.result", "exit phase 1" }

\* a comparison task is running, both extraction calls having returned
C12_Witness ==
    /\ RunningTasks # {}
    /\ \A side \in Sides : extraction[side].st = "returned"

\* C13 as claimed: once an extraction call has raised, the run aborts with
\* that error without waiting for the other extraction call: the thread
\* running run_parallel_analysis is never blocked before it raises.
C13_AbortsWithoutWaiting ==
    (pc # "raised" /\ \E side \in Sides : extraction[side].st = "raised") =>
        ENABLED MainThread

\* C13 as amended: the run aborts with the error of an extraction call that
\* raised, and only after both extraction calls have finished.
C13_AbortsAfterJoin ==
    pc = "raised" =>
        /\ \A side \in Sides : extraction[side].st # "running"
        /\ error # None
        /\ error.raised_by \in Sides
        /\ extraction[error.raised_by].st = "raised"
        /\ error.what = extraction[error.raised_by].exc

\* the run has aborted on the error of A, the extraction of B having
\* returned records
C13_Witness ==
    /\ pc = "raised"
    /\ error # None
    /\ error.raised_by = "Version A"
    /\ extraction["Version B"].st = "returned"
    /\ extraction["Version B"].value # << >>

\* C14: at every moment of Phase 2 at most max_workers comparison tasks
\* are executing, and all the tasks of the matcher are submitted at once,
\* whatever their number.
C14_BoundedConcurrency ==
    /\ Cardinality(RunningTasks) <= max_workers
    /\ pc \in { "as_completed", "returned" } => Len(futures) = Len(comparison_tasks)

\* every worker of the pool is busy and a task is still queued
C14_Witness ==
    /\ Cardinality(RunningTasks) = max_workers
    /\ QueuedTasks # {}

\* each collected task has given one warning or one entry, never both
OneOutcomePerTask ==
    /\ Len(systems_comparison) + Len(warnings)
           = Cardinality({ i \in TaskIds : futures[i].yielded })
    /\ \A i \in TaskIds :
          futures[i].yielded =>
              IF futures[i].raised
              THEN Cardinality({ n \in 1..Len(warnings) : warnings[n][2] = i }) = 1
              ELSE \E n \in 1..Len(systems_comparison) :
                       systems_comparison[n] = futures[i].result
    /\ Returned_ =>
          /\ Len(futures) = Len(comparison_tasks)
          /\ \A i \in TaskIds : futures[i].yielded

\* a task is started once and finished once: a running task is not queued
\* again, a finished task is not run again and keeps its outcome
RunsOnce ==
    \A i \in TaskIds :
        /\ futures[i].st = "running" => futures'[i].st # "queued"
        /\ futures[i].st = "done" =>
              /\ futures'[i].st = "done"
              /\ futures'[i].result = futures[i].result
              /\ futures'[i].raised = futures[i].raised
        /\ futures[i].yielded => futures'[i].yielded

C17_LastWriteWins ==
    \A i \in 1..Len(comparison_tasks) :
        LET task == comparison_tasks[i]
            name == IF task.system_a # None THEN SystemName(task.system_a)
                    ELSE SystemName(task.system_b)
        IN  /\ task.system_a # None => task.system_a = MapGet(systems_config_a, name)
            /\ task.system_b # None => task.system_b = MapGet(systems_config_b, name)
            /\ \A j \in 1..Len(comparison_tasks) :
                  LET other == comparison_tasks[j]
                  IN  j # i =>
                        name # (IF other.system_a # None THEN SystemName(other.system_a)
                                ELSE SystemName(other.system_b))

\* C20: no Phase-2 task changes a record: the returned systems_config_a and
\* systems_config_b are the two extraction outputs, the tasks are the ones
\* the matcher built from them, and config_a and config_b of every locally
\* built result are the records of its task.
C20_RecordsUnchanged ==
    /\ pc \in { "as_completed", "returned" } =>
          /\ systems_config_a = extraction["Version A"].value
          /\ systems_config_b = extraction["Version B"].value
          /\ comparison_tasks = BuildTasks(extraction["Version A"].value,
                                           extraction["Version B"].value)
    /\ Returned_ =>
          /\ report.systems_config_a = extraction["Version A"].value
          /\ report.systems_config_b = extraction["Version B"].value
    /\ \A i \in TaskIds :
          (futures[i].st = "done" /\ ~futures[i].raised /\ ~futures[i].answer.ok) =>
              /\ futures[i].result.config_a = comparison_tasks[i].system_a
              /\ futures[i].result.config_b = comparison_tasks[i].system_b
              /\ futures[i].yielded =>
                    \E n \in 1..Len(systems_comparison) :
                        /\ systems_comparison[n].config_a = comparison_tasks[i].system_a
                        /\ systems_comparison[n].config_b = comparison_tasks[i].system_b

\* a run has returned with a fallback entry and an entry of a record only B
\* has
C20_Witness ==
    /\ Returned_
    /\ \E i \in TaskIds : futures[i].answer \in { Raised(e) : e \in ComparisonErrors }
    /\ EntriesWith(LAMBDA e : e.status = "new_in_b") # {}

\* the tasks that ended in the fallback
FallbackTasks ==
    { i \in TaskIds : futures[i].st = "done"
                      /\ futures[i].answer \in { Raised(e) : e \in ComparisonErrors } }

\* str(d.get(field, "N/A"))
StrOf(d, field) == Str(Get(d, field, JStr("N/A")))

\* field, str(value_a), str(value_b) of the fields of field_order whose two
\* strings differ, in the order of field_order
StringDifferences(system_a, system_b) ==
    LET differing == SelectSeq(field_order,
                               LAMBDA f : StrOf(system_a, f) # StrOf(system_b, f))
    IN  [n \in 1..Len(differing) |->
            << differing[n], StrOf(system_a, differing[n]), StrOf(system_b, differing[n]) >>]

\* C16: _manual_field_comparison(a, b) returns, in the order of the field
\* list, one FieldDifference for exactly the fields whose values differ
\* after coercion to string, a missing attribute read as "N/A", and none
\* for a field whose two strings are equal; each carries str(value_a) and
\* str(value_b).
C16_DiffersAfterCoercion ==
    \A i \in FallbackTasks :
        LET differences == futures[i].result.field_differences
        IN  [n \in 1..Len(differences) |->
                << differences[n].field_name, differences[n].value_a, differences[n].value_b >>]
              = StringDifferences(comparison_tasks[i].system_a, comparison_tasks[i].system_b)

\* the two records have the same value in every field of field_order, a
\* missing attribute counting as "N/A"
SameFields(system_a, system_b) ==
    \A n \in 1..Len(field_order) :
        Get(system_a, field_order[n], JStr("N/A")) = Get(system_b, field_order[n], JStr("N/A"))

HungIds == 1..(MaxPerSide + MaxPerSide)

\* the as_completed loop has taken the future of task j: its result is in
\* systems_comparison, or its exception has become a warning
Collected(j) ==
    /\ j \in TaskIds
    /\ futures[j].yielded
    /\ IF futures[j].raised
       THEN \E n \in 1..Len(warnings) : warnings[n][2] = j
       ELSE \E n \in 1..Len(systems_comparison) : systems_comparison[n] = futures[j].result

\* C19: a call of the comparison service that never returns stalls only its
\* own task.  Whichever task h hangs, if process_comparison_task comes to
\* its end in every other task that runs, then with max_workers >= 2 every
\* other task is eventually started and its result collected into
\* systems_comparison.
C19_HungCallStallsOwnTaskOnly ==
    \A h \in HungIds :
        (\A j \in HungIds \ {h} : WF_vars(FinishTask(j)))
            => \A j \in HungIds \ {h} : [](j \in TaskIds => <>Collected(j))

\* three tasks on two workers: a call of the service is still out for one,
\* and the other two have been collected
C19_Witness ==
    /\ max_workers >= 2
    /\ Len(futures) = 3
    /\ \E h \in TaskIds :
          /\ futures[h].st = "running"
          /\ CallsService(comparison_tasks[h])
          /\ \A j \in TaskIds \ {h} : Collected(j)

\* the sentence process_comparison_task writes for a task it answers itself
TemplatedAnalysis(task) ==
    IF task.status = "missing_in_b"
    THEN << "exists in Version A but is missing in Version B", SystemName(task.system_a) >>
    ELSE << "is new in Version B (not present in Version A)", SystemName(task.system_b) >>

\* a call of compare_system_pair is out for task i
CallOut(i) == \E answer \in Answers : ENABLED ServiceAnswers(i, answer)

\* C21: compare_system_pair is called exactly once for each matched task,
\* while the task runs, and its one answer makes the result; it is never
\* called for a missing_in_b or new_in_b task, whose result is built
\* locally with empty field_differences and the templated sentence.
C21_ServiceOnlyForMatched ==
    \A i \in TaskIds :
        LET task == comparison_tasks[i]
            future == futures[i]
        IN  IF task.status = "matched"
            THEN /\ CallOut(i) <=> future.st = "running"
                 /\ future.st = "running" => ~ENABLED LocalTask(i)
                 /\ (future.st = "done" /\ ~future.raised) =>
                       /\ future.answer \in Answers
                       /\ future.result.status = "matched"
                       /\ future.result =
                             IF future.answer.ok
                             THEN SetStatusMatched(Payload(future.answer.what,
                                                           task.system_a, task.system_b))
                             ELSE FallbackResult(task.system_a, task.system_b,
                                                 future.answer.what)
            ELSE /\ ~CallOut(i)
                 /\ future.answer = NoCall
                 /\ future.st = "running" => ENABLED LocalTask(i)
                 /\ future.st = "done" =>
                       /\ ~future.raised
                       /\ future.result.status = task.status
                       /\ future.result.field_differences = << >>
                       /\ future.result.system_analysis = TemplatedAnalysis(task)

\* a run has returned in which the service answered for a matched task and
\* another task was answered locally
C21_Witness ==
    /\ Returned_
    /\ \E i \in TaskIds : comparison_tasks[i].status = "matched" /\ futures[i].answer.ok
    /\ \E i \in TaskIds : comparison_tasks[i].status # "matched" /\ futures[i].st = "done"

\* the extraction of one document has failed while the other is still running
FailedFirst(side, other) ==
    extraction[side].st = "raised" /\ extraction[other].st = "running"

\* run_parallel_analysis has raised, both extraction calls having failed
BothFailedSurfaced ==
    pc = "raised" /\ \A side \in Sides : extraction[side].st = "raised"

\* the error raised is the one of the extraction of document A
ErrorOfA ==
    /\ error # None
    /\ error.raised_by = "Version A"
    /\ error.what = extraction["Version A"].exc

\* C22: when both extraction calls fail, the error run_parallel_analysis
\* raises is the one of document A's extraction, whether B failed first or
\* A failed first, and it is raised only after both calls have finished.
C22_ErrorOfAWhenBothFail ==
    /\ [](FailedFirst("Version B", "Version A") => [](BothFailedSurfaced => ErrorOfA))
    /\ [](FailedFirst("Version A", "Version B") => [](BothFailedSurfaced => ErrorOfA))
    /\ []((\E side \in Sides : extraction[side].st = "running") => pc # "raised")

\* both extraction calls have failed with different errors and the run has
\* raised the one of A
C22_Witness ==
    /\ BothFailedSurfaced
    /\ ErrorOfA
    /\ extraction["Version B"].exc # extraction["Version A"].exc

====
